---------------------------- MODULE Spec2Model ----------------------------
(***************************************************************************)
(* A model of the spectral-gate numeric core: Q15.16 fixed-point           *)
(* arithmetic (hal_interface.h), the battery-aware decision policy         *)
(* (decision.cpp), the spectral processor (spectral.cpp) and the quantized *)
(* inference engine (inference.cpp).                                       *)
(*                                                                         *)
(* The core is a library of synchronous calls.  A behaviour of the model   *)
(* is one call: Init draws the object the call is made on and the call's   *)
(* arguments, the action of the called operation runs its body and leaves  *)
(* the returned value in ret and the observable locals in local.           *)
(*                                                                         *)
(* TLC's integers are 32 bits wide.  The 64-bit intermediates of the code  *)
(* are computed limb-wise (fixed_mul) or by shift-and-subtract division    *)
(* (ShlDiv), so that no intermediate of the model leaves 32 bits.          *)
(***************************************************************************)
EXTENDS Integers, Sequences, FiniteSets, TLC

VARIABLES
    pc,         \* "call" before the body has run, "return" after, "trap" if it faulted
    op,         \* the operation called
    args,       \* its arguments
    ret,        \* its return value
    local,      \* locals and memory accesses of the body that claims observe
    proc,       \* the SpectralProcessor: num_bins_, sample_rate_
    engine      \* the InferenceEngine: weights_, biases_, input_size_, output_size_, scale_factor_

vars == <<pc, op, args, ret, local, proc, engine>>

-----------------------------------------------------------------------------
(* Model bounds *)

\* battery voltages are drawn within this distance of every tier boundary
BatteryRadius == 1
\* confidences are drawn within this distance of every threshold of the call
ConfidenceRadius == 1
\* the longest sample window
MaxSamples == 4
\* the largest input_size_ of an engine, and the longest feature vector
MaxInputs == 2
\* the weights of an engine repeat with this period, its biases with BiasPeriod
WeightPeriod == 3
BiasPeriod == 2
\* the longest spectrum and the highest magnitude find_peaks is called with
MaxPeakBins == 5
MaxPeakLevel == 3
\* fixed_mul is applied to the operands within this distance of its anchors
OperandRadius == 1

-----------------------------------------------------------------------------
(* hal_interface.h: fixed point *)

FIXED_SHIFT == 16
FIXED_ONE == 65536

BATTERY_CRITICAL_MV == 3000
BATTERY_LOW_MV == 3300
BATTERY_NOMINAL_MV == 3700

INT32_MAX == 2147483647
INT32_MIN == (0 - INT32_MAX) - 1
INT16_MAX == 32767
UINT8_MAX == 255
UINT16_MAX == 65535

\* an array as the code stores it: every element computed once, when it is written
Stored(array) == array @@ <<>>

RECURSIVE Pow2(_)
Pow2(n) == IF n = 0 THEN 1 ELSE 2 * Pow2(n - 1)

\* x >> 16 (arithmetic) and the low 16 bits of x
Hi16(x) == x \div FIXED_ONE
Lo16(x) == x % FIXED_ONE

\* float_to_fixed(val) for the binary32 value val = mant / 2^exp, mant >= 0:
\* val * FIXED_ONE is exact in binary32, static_cast<fixed_t> drops the fraction.
float_to_fixed(mant, exp) ==
    IF exp >= FIXED_SHIFT
    THEN mant \div Pow2(exp - FIXED_SHIFT)
    ELSE mant * Pow2(FIXED_SHIFT - exp)

\* mutant: the product clamped to the range of fixed_t instead of truncated
fixed_mul_saturating(a, b) ==
    LET ah == Hi16(a)
        al == Lo16(a)
        bh == Hi16(b)
        bl == Lo16(b)
        c  == (((al \div 256) * bl) + (((al % 256) * bl) \div 256)) \div 256
        s1 == ah * bl
        s2 == al * bh
        lo == Lo16(s1) + Lo16(s2) + c
        hi == ah * bh + Hi16(s1) + Hi16(s2) + Hi16(lo)
    IN  IF hi > 32767 THEN INT32_MAX
        ELSE IF hi < 0 - 32768 THEN INT32_MIN
        ELSE hi * FIXED_ONE + Lo16(lo)

\* fixed_mul(a, b): static_cast<fixed_t>((int64(a) * b) >> 16), bits 16..47 of
\* the 64-bit product read as a signed 32-bit value.  With a = ah*2^16 + al and
\* b = bh*2^16 + bl: (a*b) >> 16 = ah*bh*2^16 + ah*bl + al*bh + ((al*bl) >> 16).
fixed_mul(a, b) ==
    LET ah == Hi16(a)
        al == Lo16(a)
        bh == Hi16(b)
        bl == Lo16(b)
        \* (al*bl) >> 16, with al = a1*256 + a0
        c  == (((al \div 256) * bl) + (((al % 256) * bl) \div 256)) \div 256
        s1 == ah * bl
        s2 == al * bh
        lo == Lo16(s1) + Lo16(s2) + c
        hi == Lo16(ah * bh + Hi16(s1) + Hi16(s2) + Hi16(lo))
        hs == IF hi >= 32768 THEN hi - FIXED_ONE ELSE hi
    IN  hs * FIXED_ONE + Lo16(lo)

-----------------------------------------------------------------------------
(* decision.h, decision.cpp *)

SLEEP == 0
TX_ALERT == 1
TX_UNCERTAIN == 2

get_default_config ==
    [ base_confidence_threshold   |-> float_to_fixed(5452595, 23),   \* 0.65f
      low_battery_multiplier      |-> float_to_fixed(5033165, 22),   \* 1.2f
      critical_battery_multiplier |-> float_to_fixed(3, 1),          \* 1.5f
      min_peaks_for_detection     |-> 2 ]

\* mutant: the low tier reaches up to the nominal voltage
effective_threshold_nominal_tier(battery_mv, config) ==
    IF battery_mv < BATTERY_CRITICAL_MV
    THEN fixed_mul(config.base_confidence_threshold, config.critical_battery_multiplier)
    ELSE IF battery_mv < BATTERY_NOMINAL_MV
         THEN fixed_mul(config.base_confidence_threshold, config.low_battery_multiplier)
         ELSE config.base_confidence_threshold

\* mutant: the critical tier scaled by the low-battery multiplier
effective_threshold_swapped(battery_mv, config) ==
    IF battery_mv < BATTERY_CRITICAL_MV
    THEN fixed_mul(config.base_confidence_threshold, config.low_battery_multiplier)
    ELSE IF battery_mv < BATTERY_LOW_MV
         THEN fixed_mul(config.base_confidence_threshold, config.low_battery_multiplier)
         ELSE config.base_confidence_threshold

\* Step 1: the effective threshold for the battery level
effective_threshold(battery_mv, config) ==
    IF battery_mv < BATTERY_CRITICAL_MV
    THEN fixed_mul(config.base_confidence_threshold, config.critical_battery_multiplier)
    ELSE IF battery_mv < BATTERY_LOW_MV
         THEN fixed_mul(config.base_confidence_threshold, config.low_battery_multiplier)
         ELSE config.base_confidence_threshold

\* mutant: a peak magnitude of exactly 0.1 counts as activity
sufficient_spectral_activity_inclusive(spectral, config) ==
    /\ spectral.num_peaks >= config.min_peaks_for_detection
    /\ spectral.peak_magnitude >= float_to_fixed(13421773, 27)

\* mutant: the activity judged by the number of peaks alone
sufficient_spectral_activity_peaks_only(spectral, config) ==
    spectral.num_peaks >= config.min_peaks_for_detection

\* Step 2: sufficient spectral activity
sufficient_spectral_activity(spectral, config) ==
    /\ spectral.num_peaks >= config.min_peaks_for_detection
    /\ spectral.peak_magnitude > float_to_fixed(13421773, 27)        \* 0.1f

\* mutant: a confidence equal to the threshold is not yet an alert
class1_decision_strict(confidence, threshold) ==
    IF confidence > threshold
    THEN TX_ALERT
    ELSE IF confidence >= fixed_mul(threshold, float_to_fixed(11744051, 24))
         THEN TX_UNCERTAIN
         ELSE SLEEP

\* Class 1 = anomaly detected
class1_decision(confidence, threshold) ==
    IF confidence >= threshold
    THEN TX_ALERT
    ELSE IF confidence >= fixed_mul(threshold, float_to_fixed(11744051, 24))   \* 0.7f
         THEN TX_UNCERTAIN
         ELSE SLEEP

\* mutant: the uncertain class transmitted at every battery voltage
class2_decision_any_battery(spectral, battery_mv, config) ==
    IF spectral.num_peaks >= config.min_peaks_for_detection + 1
    THEN TX_UNCERTAIN
    ELSE SLEEP

\* mutant: the uncertain class transmitted below the low-battery voltage only
class2_decision_below_low(spectral, battery_mv, config) ==
    IF /\ battery_mv < BATTERY_LOW_MV
       /\ spectral.num_peaks >= config.min_peaks_for_detection + 1
    THEN TX_UNCERTAIN
    ELSE SLEEP

\* mutant: min_peaks_for_detection + 1 computed in 8 bits
class2_decision_uint8(spectral, battery_mv, config) ==
    IF /\ battery_mv >= BATTERY_LOW_MV
       /\ spectral.num_peaks >= (config.min_peaks_for_detection + 1) % (UINT8_MAX + 1)
    THEN TX_UNCERTAIN
    ELSE SLEEP

\* Class 2 = model uncertain; the sum is computed in int (integer promotion)
class2_decision(spectral, battery_mv, config) ==
    IF /\ battery_mv >= BATTERY_LOW_MV
       /\ spectral.num_peaks >= config.min_peaks_for_detection + 1
    THEN TX_UNCERTAIN
    ELSE SLEEP

\* mutant: an unknown class is passed on for cloud analysis
evaluate_structure_forward_unknown(spectral, inference, battery_mv, config) ==
    IF ~sufficient_spectral_activity(spectral, config) THEN SLEEP
    ELSE IF inference.predicted_class = 0 THEN SLEEP
    ELSE IF inference.predicted_class = 1
         THEN class1_decision(inference.confidence,
                              effective_threshold(battery_mv, config))
    ELSE IF inference.predicted_class = 2
         THEN class2_decision(spectral, battery_mv, config)
    ELSE TX_UNCERTAIN

evaluate_structure(spectral, inference, battery_mv, config) ==
    IF ~sufficient_spectral_activity(spectral, config) THEN SLEEP
    ELSE IF inference.predicted_class = 0 THEN SLEEP
    ELSE IF inference.predicted_class = 1
         THEN class1_decision(inference.confidence,
                              effective_threshold(battery_mv, config))
    ELSE IF inference.predicted_class = 2
         THEN class2_decision(spectral, battery_mv, config)
    ELSE SLEEP

-----------------------------------------------------------------------------
(* spectral.cpp *)

MAX_BINS == 128

\* C++ integer division (towards zero) by a positive divisor
TruncDiv(a, b) == IF a >= 0 THEN a \div b ELSE 0 - ((0 - a) \div b)

RECURSIVE FracBits(_, _, _, _)
\* the next n bits of the quotient r / d, appended to q; 0 <= r < d < 2^30
FracBits(r, d, n, q) ==
    IF n = 0 THEN q
    ELSE IF 2 * r >= d
         THEN FracBits(2 * r - d, d, n - 1, 2 * q + 1)
         ELSE FracBits(2 * r, d, n - 1, 2 * q)

\* static_cast<fixed_t>((int64(a) * FIXED_ONE) / d) for a >= 0, 0 < d < 2^30:
\* the 64-bit quotient by long division, its low 32 bits read as signed
ShlDiv(a, d) ==
    LET hi == Lo16(a \div d)
        hs == IF hi >= 32768 THEN hi - FIXED_ONE ELSE hi
    IN  hs * FIXED_ONE + FracBits(a % d, d, FIXED_SHIFT, 0)

\* the piecewise-linear sine, 256 steps to the circle
fast_sin(angle_256) ==
    LET a  == angle_256 % 256                       \* angle_256 &= 255
        x1 == IF a > 128 THEN 256 - a ELSE a
        x  == IF x1 > 64 THEN 128 - x1 ELSE x1
        result == (x * FIXED_ONE) \div 64
    IN  IF a > 128 THEN 0 - result ELSE result

fast_cos(angle_256) == fast_sin(angle_256 + 64)

RECURSIVE real_sum(_, _, _)
\* the real correlation sum over samples[0..n-1]
real_sum(samples, n, freq_mult) ==
    IF n = 0 THEN 0
    ELSE real_sum(samples, n - 1, freq_mult)
         + samples[n - 1] * fast_cos((freq_mult * (n - 1)) % 256)

RECURSIVE imag_sum(_, _, _)
\* the imaginary correlation sum over samples[0..n-1]
imag_sum(samples, n, freq_mult) ==
    IF n = 0 THEN 0
    ELSE imag_sum(samples, n - 1, freq_mult)
         + samples[n - 1] * fast_sin((freq_mult * (n - 1)) % 256)

Abs(x) == IF x >= 0 THEN x ELSE 0 - x

\* mutant: the carrier of bin k advancing k/num_bins of half a circle per sample
freq_mult_half_circle(k, num_bins) == (k * 128) \div num_bins

\* the steps of the 256-step circle the carrier of bin k advances per sample
freq_mult(k, num_bins) == (k * 256) \div num_bins

\* the magnitude of the correlation of the window with the carrier that
\* advances step steps per sample (lines 59-83); num_samples > 0
carrier_magnitude(samples, num_samples, step) ==
    LET re == TruncDiv(real_sum(samples, num_samples, step), num_samples)
        im == TruncDiv(imag_sum(samples, num_samples, step), num_samples)
        abs_real == Abs(re)
        abs_imag == Abs(im)
        max_val == IF abs_real > abs_imag THEN abs_real ELSE abs_imag
        min_val == IF abs_real < abs_imag THEN abs_real ELSE abs_imag
    IN  (max_val + (min_val * 4) \div 10) \div FIXED_ONE

\* magnitudes[k] as one pass of the loop over the bins computes it; num_samples > 0
bin_magnitude(samples, num_samples, num_bins, k) ==
    carrier_magnitude(samples, num_samples, freq_mult(k, num_bins))

\* the array compute_magnitude_spectrum writes: its domain are the indices
\* written, 0 .. num_bins_ - 1, whatever the size of the destination
compute_magnitude_spectrum(samples, num_samples, num_bins) ==
    Stored([ k \in 0..(num_bins - 1) |->
               bin_magnitude(samples, num_samples, num_bins, k) ])

\* mutant: a bin as high as its right neighbour taken for a local maximum
is_peak_nonstrict(magnitudes, i, threshold) ==
    /\ magnitudes[i] > threshold
    /\ magnitudes[i] > magnitudes[i - 1]
    /\ magnitudes[i] >= magnitudes[i + 1]

\* the test of lines 96-98 on bin i
is_peak(magnitudes, i, threshold) ==
    /\ magnitudes[i] > threshold
    /\ magnitudes[i] > magnitudes[i - 1]
    /\ magnitudes[i] > magnitudes[i + 1]

RECURSIVE SumOver(_, _, _)
\* array[lo] + ... + array[hi], the sum a loop over lo..hi accumulates
SumOver(array, lo, hi) ==
    IF lo > hi THEN 0
    ELSE IF lo = hi THEN array[lo]
    ELSE LET mid == (lo + hi) \div 2
         IN  SumOver(array, lo, mid) + SumOver(array, mid + 1, hi)

RECURSIVE MaxOver(_, _, _, _)
\* the largest of least and array[lo..hi], the maximum a loop over lo..hi
\* that starts from least keeps
MaxOver(array, lo, hi, least) ==
    IF lo > hi THEN least
    ELSE IF lo = hi THEN (IF array[lo] > least THEN array[lo] ELSE least)
    ELSE LET mid == (lo + hi) \div 2
             l == MaxOver(array, lo, mid, least)
             h == MaxOver(array, mid + 1, hi, least)
         IN  IF h > l THEN h ELSE l

\* peak_count after the loop over i = 1 .. count - 2, a uint8_t incremented
\* once per bin that passes the test; count >= 1
find_peaks(magnitudes, count, threshold) ==
    SumOver(Stored([ i \in 1..(count - 2) |->
                       IF is_peak(magnitudes, i, threshold) THEN 1 ELSE 0 ]),
            1, count - 2) % (UINT8_MAX + 1)

weighted_sum(magnitudes, count) ==
    SumOver(Stored([ i \in 0..(count - 1) |-> magnitudes[i] * i ]), 0, count - 1)

magnitude_sum(magnitudes, count) == SumOver(magnitudes, 0, count - 1)

\* mutant: the bins weighted by their position counted from 1
compute_centroid_one_based(magnitudes, count) ==
    IF magnitude_sum(magnitudes, count) = 0 THEN 0
    ELSE ShlDiv(weighted_sum(magnitudes, count) + magnitude_sum(magnitudes, count),
                magnitude_sum(magnitudes, count))

\* compute_centroid reaches the division of line 123
centroid_divides(magnitudes, count) == magnitude_sum(magnitudes, count) # 0

\* the centroid of non-negative magnitudes as a fixed-point bin index
compute_centroid(magnitudes, count) ==
    IF magnitude_sum(magnitudes, count) = 0 THEN 0
    ELSE ShlDiv(weighted_sum(magnitudes, count), magnitude_sum(magnitudes, count))

RECURSIVE peak_scan_nonstrict(_, _, _)
\* mutant: the scan replacing max_mag by a magnitude as large as it
peak_scan_nonstrict(magnitudes, lo, hi) ==
    IF lo > hi THEN [max_mag |-> 0, max_bin |-> 0]
    ELSE IF lo = hi
         THEN (IF magnitudes[lo] >= 0
               THEN [max_mag |-> magnitudes[lo], max_bin |-> lo]
               ELSE [max_mag |-> 0, max_bin |-> 0])
    ELSE LET mid == (lo + hi) \div 2
             low == peak_scan_nonstrict(magnitudes, lo, mid)
             high == peak_scan_nonstrict(magnitudes, mid + 1, hi)
         IN  IF high.max_bin # 0 /\ high.max_mag >= low.max_mag THEN high ELSE low

\* mutant: the dominant bin is the highest bin with the largest magnitude
max_bin_highest(magnitudes, n) == peak_scan_nonstrict(magnitudes, 1, n - 1).max_bin

RECURSIVE peak_scan(_, _, _)
\* max_mag and max_bin after the loop of lines 149-154, entered with
\* max_mag = 0 and max_bin = 0, has visited the bins lo .. hi: the bins of the
\* upper half replace what the lower half left only by a larger magnitude
peak_scan(magnitudes, lo, hi) ==
    IF lo > hi THEN [max_mag |-> 0, max_bin |-> 0]
    ELSE IF lo = hi
         THEN (IF magnitudes[lo] > 0
               THEN [max_mag |-> magnitudes[lo], max_bin |-> lo]
               ELSE [max_mag |-> 0, max_bin |-> 0])
    ELSE LET mid == (lo + hi) \div 2
             low == peak_scan(magnitudes, lo, mid)
             high == peak_scan(magnitudes, mid + 1, hi)
         IN  IF high.max_mag > low.max_mag THEN high ELSE low

\* the bin the loop over 1 .. n - 1 leaves in max_bin
max_bin(magnitudes, n) == peak_scan(magnitudes, 1, n - 1).max_bin

ZeroSpectralResult ==
    [ dominant_frequency |-> 0, peak_magnitude |-> 0,
      spectral_centroid |-> 0, num_peaks |-> 0 ]

\* lines 145-172 of process on the computed magnitudes; actual_bins >= 1
analyse_spectrum(magnitudes, actual_bins, sample_rate) ==
    LET b == max_bin(magnitudes, actual_bins)
        max_mag == IF b = 0 THEN 0 ELSE magnitudes[b]
    IN  [ dominant_frequency |-> ShlDiv(b * sample_rate, 2 * actual_bins),
          peak_magnitude     |-> max_mag,
          spectral_centroid  |-> compute_centroid(magnitudes, actual_bins),
          num_peaks          |-> find_peaks(magnitudes, actual_bins,
                                    fixed_mul(max_mag, float_to_fixed(13421773, 26))) ]

\* what a call that ran into undefined behaviour can do: fault, or return one
\* of the given values
UndefinedOutcomes(values) ==
    { [pc |-> "trap", ret |-> [void |-> TRUE]] } \cup
    { [pc |-> "return", ret |-> v] : v \in values }

GarbageSpectralResult ==
    [ dominant_frequency |-> 0 - 1, peak_magnitude |-> INT32_MAX,
      spectral_centroid |-> 0 - 1, num_peaks |-> UINT8_MAX ]

-----------------------------------------------------------------------------
(* inference.cpp *)

MAX_OUTPUTS == 8

RECURSIVE accumulator(_, _, _, _, _)
\* the weighted sum of input[0..n-1] for output neuron output_idx (row-major weights)
accumulator(weights, input, input_size, output_idx, n) ==
    IF n = 0 THEN 0
    ELSE accumulator(weights, input, input_size, output_idx, n - 1)
         + input[n - 1] * weights[output_idx * input_size + (n - 1)]

dot_product(e, input, output_idx) ==
    LET acc == accumulator(e.weights_, input, e.input_size_, output_idx, e.input_size_)
        result == fixed_mul(acc \div 128, e.scale_factor_)               \* acc >> 7
    IN  result + e.biases_[output_idx] * Pow2(FIXED_SHIFT - 7)           \* bias << 9

RECURSIVE max_output(_, _)
max_output(outputs, n) ==
    IF n = 1 THEN outputs[0]
    ELSE LET m == max_output(outputs, n - 1)
         IN  IF outputs[n - 1] > m THEN outputs[n - 1] ELSE m

RECURSIVE min_output(_, _)
min_output(outputs, n) ==
    IF n = 1 THEN outputs[0]
    ELSE LET m == min_output(outputs, n - 1)
         IN  IF outputs[n - 1] < m THEN outputs[n - 1] ELSE m

RECURSIVE sum_outputs(_, _)
sum_outputs(outputs, n) ==
    IF n = 0 THEN 0 ELSE sum_outputs(outputs, n - 1) + outputs[n - 1]

\* max_val - min_val of normalize_outputs; count >= 1
output_range(outputs, count) == max_output(outputs, count) - min_output(outputs, count)

\* normalize_outputs divides by count (the uniform branch) or by range >> 8
normalize_divides_by_zero(outputs, count) ==
    \/ count = 0
    \/ /\ output_range(outputs, count) >= float_to_fixed(8589935, 33)
       /\ output_range(outputs, count) \div 256 = 0

\* mutant: the uniform distribution taken over the capacity of the output
\* buffer instead of the number of outputs
normalize_outputs_uniform_over_capacity(outputs, count) ==
    LET min_val == min_output(outputs, count)
        range == output_range(outputs, count)
    IN  IF range < float_to_fixed(8589935, 33)
        THEN Stored([ i \in 0..(count - 1) |-> FIXED_ONE \div MAX_OUTPUTS ])
        ELSE LET factor == (FIXED_ONE * 256) \div (range \div 256)
                 scaled == Stored([ i \in 0..(count - 1) |->
                                      LET v == fixed_mul(outputs[i] - min_val, factor)
                                      IN  IF v < 0 THEN 0 ELSE v ])
                 sum == sum_outputs(scaled, count)
             IN  IF sum > 0
                 THEN Stored([ i \in 0..(count - 1) |-> ShlDiv(scaled[i], sum) ])
                 ELSE scaled

\* mutant: the outputs rescaled to [0, 1] and not divided by their sum
normalize_outputs_not_renormalized(outputs, count) ==
    LET min_val == min_output(outputs, count)
        range == output_range(outputs, count)
    IN  IF range < float_to_fixed(8589935, 33)
        THEN Stored([ i \in 0..(count - 1) |-> FIXED_ONE \div count ])
        ELSE LET factor == (FIXED_ONE * 256) \div (range \div 256)
             IN  Stored([ i \in 0..(count - 1) |->
                            LET v == fixed_mul(outputs[i] - min_val, factor)
                            IN  IF v < 0 THEN 0 ELSE v ])

\* the outputs after normalize_outputs, when no divisor of it is zero
normalize_outputs(outputs, count) ==
    LET min_val == min_output(outputs, count)
        range == output_range(outputs, count)
    IN  IF range < float_to_fixed(8589935, 33)                           \* 0.001f
        THEN Stored([ i \in 0..(count - 1) |-> FIXED_ONE \div count ])
        ELSE LET factor == (FIXED_ONE * 256) \div (range \div 256)
                 scaled == Stored([ i \in 0..(count - 1) |->
                                      LET v == fixed_mul(outputs[i] - min_val, factor)
                                      IN  IF v < 0 THEN 0 ELSE v ])
                 sum == sum_outputs(scaled, count)
             IN  IF sum > 0
                 THEN Stored([ i \in 0..(count - 1) |-> ShlDiv(scaled[i], sum) ])
                 ELSE scaled

RECURSIVE argmax(_, _)
\* the lowest index of the largest of outputs[0..count-1]; count >= 1
argmax(outputs, count) ==
    IF count = 1 THEN 0
    ELSE LET m == argmax(outputs, count - 1)
         IN  IF outputs[count - 1] > outputs[m] THEN count - 1 ELSE m

\* the outputs of the neurons after the ReLU-like clamp
raw_outputs(e, features, actual_outputs) ==
    Stored([ i \in 0..(actual_outputs - 1) |->
               LET v == dot_product(e, features, i) IN IF v < 0 THEN 0 ELSE v ])

\* lines 128-136 of run on the normalized outputs
inference_result(outputs, actual_outputs) ==
    LET predicted_class == argmax(outputs, actual_outputs)
        confidence == outputs[predicted_class]
    IN  [ confidence |-> IF confidence > FIXED_ONE THEN FIXED_ONE
                         ELSE IF confidence < 0 THEN 0 ELSE confidence,
          predicted_class |-> predicted_class ]

ZeroInferenceResult == [confidence |-> 0, predicted_class |-> 0]

GarbageInferenceResult == [confidence |-> INT32_MAX, predicted_class |-> UINT8_MAX]

-----------------------------------------------------------------------------
(* The objects a call that does not use them is made beside *)

DefaultProcessor == [num_bins_ |-> 64, sample_rate_ |-> 1000]
NoEngine == [weights_ |-> <<>>, biases_ |-> <<>>, input_size_ |-> 0,
             output_size_ |-> 0, scale_factor_ |-> FIXED_ONE]
NoValue == [void |-> TRUE]

-----------------------------------------------------------------------------
(* Calls of evaluate_structure *)

BatteryValues ==
    {0, UINT16_MAX} \cup
    { t + d : t \in {BATTERY_CRITICAL_MV, BATTERY_LOW_MV, BATTERY_NOMINAL_MV},
              d \in (0 - BatteryRadius)..BatteryRadius }

\* 0, the default 0.65, 0.9, 1.0, and 30000.0, whose scaled product leaves 32 bits
BaseThresholds ==
    { 0, float_to_fixed(5452595, 23), float_to_fixed(7549747, 23), FIXED_ONE,
      float_to_fixed(30000, 0) }

\* <<low, critical>>: the defaults 1.2/1.5, none, and a pair that lowers the bar
Multipliers ==
    { <<float_to_fixed(5033165, 22), float_to_fixed(3, 1)>>,
      <<FIXED_ONE, FIXED_ONE>>,
      <<float_to_fixed(1, 1), float_to_fixed(1, 2)>> }

MinPeaks == {0, 2, UINT8_MAX}

ThresholdConfigs ==
    { [ base_confidence_threshold   |-> b,
        low_battery_multiplier      |-> m[1],
        critical_battery_multiplier |-> m[2],
        min_peaks_for_detection     |-> p ] :
      b \in BaseThresholds, m \in Multipliers, p \in MinPeaks }

NumPeaksValues == {0, 1, 2, 3, UINT8_MAX - 1, UINT8_MAX}

PeakMagnitudes ==
    { 0, float_to_fixed(13421773, 27), float_to_fixed(13421773, 27) + 1,
      float_to_fixed(1, 1) }

SpectralResults ==
    { [ dominant_frequency |-> 0, peak_magnitude |-> m,
        spectral_centroid |-> 0, num_peaks |-> n ] :
      m \in PeakMagnitudes, n \in NumPeaksValues }

PredictedClasses == {0, 1, 2, 3, UINT8_MAX}

\* the 32-bit values within r of v
Around(v, r) ==
    { v + d : d \in { e \in (0 - r)..r :
                        IF e >= 0 THEN v <= INT32_MAX - e ELSE v >= INT32_MIN - e } }

\* the confidences around the two thresholds of a call, and the values of the tests
ConfidenceValues(battery_mv, config) ==
    LET t == effective_threshold(battery_mv, config)
        u == fixed_mul(t, float_to_fixed(11744051, 24))
    IN  { 0, FIXED_ONE, float_to_fixed(11744051, 24), float_to_fixed(7130317, 23) }
        \cup Around(t, ConfidenceRadius) \cup Around(u, ConfidenceRadius)

InitDecision ==
    /\ pc = "call"
    /\ op = "evaluate_structure"
    /\ \E spectral \in SpectralResults, battery_mv \in BatteryValues,
          config \in ThresholdConfigs, predicted_class \in PredictedClasses :
         \E confidence \in ConfidenceValues(battery_mv, config) :
            args = [ spectral   |-> spectral,
                     inference  |-> [confidence |-> confidence,
                                     predicted_class |-> predicted_class],
                     battery_mv |-> battery_mv,
                     config     |-> config ]
    /\ ret = NoValue
    /\ local = NoValue
    /\ proc = DefaultProcessor
    /\ engine = NoEngine

EvaluateStructure ==
    /\ pc = "call"
    /\ op = "evaluate_structure"
    /\ ret' = evaluate_structure(args.spectral, args.inference,
                                 args.battery_mv, args.config)
    /\ local' = [ effective_threshold |->
                    effective_threshold(args.battery_mv, args.config) ]
    /\ pc' = "return"
    /\ UNCHANGED <<op, args, proc, engine>>

NextDecision == EvaluateStructure

SpecDecision == InitDecision /\ [][NextDecision]_vars


-----------------------------------------------------------------------------
(* Calls of evaluate_structure with the default configuration: every battery *)
(* voltage with the confidences at the thresholds, and every confidence of   *)
(* the tests' band 0.70..0.85 with the voltages at the tier boundaries.      *)

\* the spectral result of the tests and of the demo: 3 peaks, magnitude 0.5
ActiveSpectral ==
    [ dominant_frequency |-> 0, peak_magnitude |-> float_to_fixed(1, 1),
      spectral_centroid |-> 0, num_peaks |-> 3 ]

InitDefaultConfig ==
    /\ pc = "call"
    /\ op = "evaluate_structure"
    /\ \E battery_mv \in 0..UINT16_MAX :
         \E confidence \in
              IF battery_mv \in BatteryValues
              THEN ConfidenceValues(battery_mv, get_default_config) \cup
                   ( (float_to_fixed(11744051, 24) - ConfidenceRadius) ..
                     (float_to_fixed(7130317, 23) + ConfidenceRadius) )
              ELSE ConfidenceValues(battery_mv, get_default_config) :
            args = [ spectral   |-> ActiveSpectral,
                     inference  |-> [confidence |-> confidence, predicted_class |-> 1],
                     battery_mv |-> battery_mv,
                     config     |-> get_default_config ]
    /\ ret = NoValue
    /\ local = NoValue
    /\ proc = DefaultProcessor
    /\ engine = NoEngine

SpecDefaultConfig == InitDefaultConfig /\ [][NextDecision]_vars

-----------------------------------------------------------------------------
(* Calls of SpectralProcessor::process and ::extract_features *)

\* numbers of bins a processor is constructed with: none, few (3 does not
\* divide the 256 steps of the circle), the default 64, the size of the
\* magnitude buffer of process and one more
BinCounts == {0, 1, 2, 3, 4, 8, 64, MAX_BINS, MAX_BINS + 1}

Processors == { [num_bins_ |-> b, sample_rate_ |-> 1000] : b \in BinCounts }

\* int16_t samples; the correlation sums of a window stay within 31 bits
SampleValues == {0 - 4000, 0, 4000}

SampleWindows == UNION { [0..(n - 1) -> SampleValues] : n \in 0..MaxSamples }

\* the length of an array indexed from 0
Count(array) == Cardinality(DOMAIN array)

\* a destination buffer of n elements, not yet written
UninitializedBuffer(n) == [ i \in 0..(n - 1) |-> 0 - (i + 1) ]

\* sizes of the destination of extract_features around num_bins_
FeatureCapacities(num_bins) ==
    { c \in {0, num_bins - 1, num_bins, num_bins + 1} : c >= 0 }

InitSpectral ==
    /\ pc = "call"
    /\ proc \in Processors
    /\ \E samples \in SampleWindows :
         \/ /\ op = "process"
            /\ \E samples_null \in BOOLEAN :
                 args = [ samples      |-> samples,
                          samples_null |-> samples_null,
                          num_samples  |-> Count(samples) ]
         \/ /\ op = "extract_features"
            /\ \E max_features \in FeatureCapacities(proc.num_bins_) :
                 args = [ samples      |-> samples,
                          num_samples  |-> Count(samples),
                          features     |-> UninitializedBuffer(max_features),
                          max_features |-> max_features ]
    /\ ret = NoValue
    /\ local = NoValue
    /\ engine = NoEngine

\* mutant: the guard of process without the test of the pointer
empty_input_count_only(samples_null, num_samples) == num_samples = 0

\* the guard of line 133: no samples, or no sample buffer
empty_input(samples_null, num_samples) == num_samples = 0 \/ samples_null

\* the indices of samples the correlation loops read: every sample, once per bin
samples_read(num_samples, num_bins) ==
    IF num_bins = 0 THEN {} ELSE 0..(num_samples - 1)

\* SpectralProcessor::process.  local.written and local.read are the indices
\* of the stack array magnitudes[MAX_BINS] the call writes and reads,
\* local.samples_read the indices of samples it reads.
Process ==
    /\ pc = "call"
    /\ op = "process"
    /\ LET num_bins == proc.num_bins_
           actual_bins == IF num_bins < MAX_BINS THEN num_bins ELSE MAX_BINS
       IN  IF empty_input(args.samples_null, args.num_samples)
           THEN /\ pc' = "return"
                /\ ret' = ZeroSpectralResult
                /\ local' = [ ub |-> "none", written |-> {}, read |-> {},
                              samples_read |-> {}, magnitudes |-> <<>>,
                              centroid_divided |-> FALSE ]
           ELSE LET magnitudes ==
                      compute_magnitude_spectrum(args.samples, args.num_samples, num_bins)
                    written == DOMAIN magnitudes
                IN  IF actual_bins = 0
                    THEN \* (...) / (2 * actual_bins) divides by zero
                         /\ \E o \in UndefinedOutcomes({ZeroSpectralResult,
                                                        GarbageSpectralResult}) :
                              pc' = o.pc /\ ret' = o.ret
                         /\ local' = [ ub |-> "division_by_zero", written |-> written,
                                       read |-> {}, centroid_divided |-> FALSE,
                                       samples_read |->
                                         samples_read(args.num_samples, num_bins),
                                       magnitudes |-> magnitudes ]
                    ELSE IF num_bins > MAX_BINS
                    THEN \* the spectrum is written past the end of magnitudes
                         /\ \E o \in UndefinedOutcomes(
                                       { analyse_spectrum(magnitudes, actual_bins,
                                                          proc.sample_rate_),
                                         GarbageSpectralResult }) :
                              pc' = o.pc /\ ret' = o.ret
                         /\ local' = [ ub |-> "out_of_bounds_write", written |-> written,
                                       read |-> 0..(actual_bins - 1),
                                       centroid_divided |->
                                         centroid_divides(magnitudes, actual_bins),
                                       samples_read |->
                                         samples_read(args.num_samples, num_bins),
                                       magnitudes |-> magnitudes ]
                    ELSE /\ pc' = "return"
                         /\ ret' = analyse_spectrum(magnitudes, actual_bins,
                                                    proc.sample_rate_)
                         /\ local' = [ ub |-> "none", written |-> written,
                                       read |-> 0..(actual_bins - 1),
                                       centroid_divided |->
                                         centroid_divides(magnitudes, actual_bins),
                                       samples_read |->
                                         samples_read(args.num_samples, num_bins),
                                       magnitudes |-> magnitudes ]
    /\ UNCHANGED <<op, args, proc, engine>>

\* mutant: the search for the maximum skipping the DC bin, as process does
max_feature_skip_dc(features, n) == MaxOver(features, 1, n - 1, 0)

\* max_val of the normalization: the largest of features[0..n-1] above 0, or 0
max_feature(features, n) == MaxOver(features, 0, n - 1, 0)

\* the elements the normalization divides by max_val
normalize_divisions(features, num_bins) ==
    IF max_feature(features, num_bins) > 0 THEN 0..(num_bins - 1) ELSE {}

\* the destination after lines 188-198 have normalized its first num_bins elements
normalize_features(features, num_bins) ==
    LET max_val == max_feature(features, num_bins)
    IN  IF max_val > 0
        THEN Stored([ i \in DOMAIN features |->
                        IF i < num_bins THEN ShlDiv(features[i], max_val)
                        ELSE features[i] ])
        ELSE features

\* the destination with the spectrum written to its first elements
store_spectrum(features, magnitudes) ==
    Stored([ i \in DOMAIN features |->
               IF i \in DOMAIN magnitudes THEN magnitudes[i] ELSE features[i] ])

\* mutant: the capacity test letting a destination one element short through
destination_too_small_by_two(max_features, num_bins) == max_features + 1 < num_bins

\* the capacity test of line 181
destination_too_small(max_features, num_bins) == max_features < num_bins

\* SpectralProcessor::extract_features.  local.features is the destination
\* buffer after the call, local.magnitudes the spectrum before it is
\* normalized, local.divided the elements the normalization divided.
ExtractFeatures ==
    /\ pc = "call"
    /\ op = "extract_features"
    /\ LET num_bins == proc.num_bins_
       IN  IF destination_too_small(args.max_features, num_bins)
           THEN /\ pc' = "return"
                /\ ret' = 0
                /\ local' = [ ub |-> "none", features |-> args.features,
                              magnitudes |-> <<>>, divided |-> {} ]
           ELSE IF num_bins > 0 /\ args.num_samples = 0
           THEN \* real_sum /= static_cast<int64_t>(num_samples) divides by zero
                /\ \E o \in UndefinedOutcomes({0, num_bins}) :
                     pc' = o.pc /\ ret' = o.ret
                /\ \E f \in { args.features,
                              [ i \in DOMAIN args.features |-> 0 ] } :
                     local' = [ ub |-> "division_by_zero", features |-> f,
                                magnitudes |-> <<>>, divided |-> {} ]
           ELSE LET magnitudes == compute_magnitude_spectrum(args.samples,
                                                             args.num_samples, num_bins)
                    stored == store_spectrum(args.features, magnitudes)
                IN  /\ pc' = "return"
                    /\ ret' = num_bins
                    /\ local' =
                         [ ub |-> "none",
                           features |-> normalize_features(stored, num_bins),
                           magnitudes |-> magnitudes,
                           divided |-> normalize_divisions(stored, num_bins) ]
    /\ UNCHANGED <<op, args, proc, engine>>

NextSpectral == Process \/ ExtractFeatures

SpecSpectral == InitSpectral /\ [][NextSpectral]_vars

-----------------------------------------------------------------------------
(* Calls of InferenceEngine::run *)

InputSizes == 1..MaxInputs

OutputSizes == {0, 1, 2, 3, MAX_OUTPUTS, MAX_OUTPUTS + 1}

\* int8_t weights and biases
WeightValues == {0 - 128, 1, 127}
BiasValues == {0, 1}

\* output_size x input_size weights and output_size biases, each array the
\* repetition of a drawn pattern
Engines ==
    { [ weights_      |-> [ i \in 0..(o * n - 1) |-> w[i % WeightPeriod] ],
        biases_       |-> [ i \in 0..(o - 1) |-> b[i % BiasPeriod] ],
        input_size_   |-> n,
        output_size_  |-> o,
        scale_factor_ |-> FIXED_ONE ] :
      w \in [0..(WeightPeriod - 1) -> WeightValues],
      b \in [0..(BiasPeriod - 1) -> BiasValues],
      n \in InputSizes, o \in OutputSizes }

\* normalized features: 0, 0.0625, 0.25 and 1.0
FeatureValues == {0, float_to_fixed(1, 4), float_to_fixed(1, 2), FIXED_ONE}

FeatureVectors == UNION { [0..(n - 1) -> FeatureValues] : n \in 0..MaxInputs }

InitInference ==
    /\ pc = "call"
    /\ op = "run"
    /\ engine \in Engines
    /\ \E features \in FeatureVectors :
         args = [features |-> features, num_features |-> Count(features)]
    /\ ret = NoValue
    /\ local = NoValue
    /\ proc = DefaultProcessor

\* mutant: the validation of run rejecting only a vector that is too short
feature_length_short(num_features, input_size) == num_features < input_size

\* the validation of line 108
feature_length_mismatch(num_features, input_size) == num_features # input_size

\* the indices of features, weights_ and biases_ the calls of dot_product read
dot_product_reads(e, actual_outputs) ==
    [ features |-> IF actual_outputs = 0 THEN {} ELSE 0..(e.input_size_ - 1),
      weights  |-> 0..(actual_outputs * e.input_size_ - 1),
      biases   |-> 0..(actual_outputs - 1) ]

NoReads == [ features |-> {}, weights |-> {}, biases |-> {} ]

\* InferenceEngine::run.  local.raw are the outputs before normalize_outputs,
\* local.outputs after it, local.reads the elements read of the feature
\* vector and of the model.
Run ==
    /\ pc = "call"
    /\ op = "run"
    /\ LET actual_outputs == IF engine.output_size_ < MAX_OUTPUTS
                             THEN engine.output_size_ ELSE MAX_OUTPUTS
           raw == raw_outputs(engine, args.features, actual_outputs)
           reads == dot_product_reads(engine, actual_outputs)
       IN  IF feature_length_mismatch(args.num_features, engine.input_size_)
           THEN /\ pc' = "return"
                /\ ret' = ZeroInferenceResult
                /\ local' = [ ub |-> "none", raw |-> <<>>, outputs |-> <<>>,
                              reads |-> NoReads ]
           ELSE IF normalize_divides_by_zero(raw, actual_outputs)
           THEN /\ \E o \in UndefinedOutcomes({ZeroInferenceResult,
                                               GarbageInferenceResult}) :
                     pc' = o.pc /\ ret' = o.ret
                /\ local' = [ ub |-> "division_by_zero", raw |-> raw, outputs |-> raw,
                              reads |-> reads ]
           ELSE LET outputs == normalize_outputs(raw, actual_outputs)
                IN  /\ pc' = "return"
                    /\ ret' = inference_result(outputs, actual_outputs)
                    /\ local' = [ ub |-> "none", raw |-> raw, outputs |-> outputs,
                                  reads |-> reads ]
    /\ UNCHANGED <<op, args, proc, engine>>

NextInference == Run

SpecInference == InitInference /\ [][NextInference]_vars

-----------------------------------------------------------------------------
(* Calls of SpectralProcessor::find_peaks, as process makes them *)

\* magnitudes of a spectrum, and thresholds between them
PeakLevels == 0..MaxPeakLevel
PeakThresholds == 0..(MaxPeakLevel - 1)

\* spectra of 1 .. MaxPeakBins bins: process passes actual_bins, at least 1
PeakSpectra == UNION { [0..(n - 1) -> PeakLevels] : n \in 1..MaxPeakBins }

InitFindPeaks ==
    /\ pc = "call"
    /\ op = "find_peaks"
    /\ \E magnitudes \in PeakSpectra, threshold \in PeakThresholds :
         args = [ magnitudes |-> magnitudes,
                  count      |-> Count(magnitudes),
                  threshold  |-> threshold ]
    /\ ret = NoValue
    /\ local = NoValue
    /\ proc = DefaultProcessor
    /\ engine = NoEngine

FindPeaks ==
    /\ pc = "call"
    /\ op = "find_peaks"
    /\ pc' = "return"
    /\ ret' = find_peaks(args.magnitudes, args.count, args.threshold)
    /\ local' = [ ub |-> "none" ]
    /\ UNCHANGED <<op, args, proc, engine>>

NextFindPeaks == FindPeaks

SpecFindPeaks == InitFindPeaks /\ [][NextFindPeaks]_vars

-----------------------------------------------------------------------------
(* Calls of fixed_mul *)

\* fixed_t operands: the ends of the range, the powers of two where a limb
\* carries, the values of the tests and of the default configuration
FixedAnchors ==
    { INT32_MIN, 0 - float_to_fixed(3, 0), 0 - FIXED_ONE, 0, FIXED_ONE,
      float_to_fixed(5452595, 23), float_to_fixed(2, 0), float_to_fixed(3, 0),
      float_to_fixed(181, 0), INT32_MAX }

FixedOperands == UNION { Around(v, OperandRadius) : v \in FixedAnchors }

InitFixedMul ==
    /\ pc = "call"
    /\ op = "fixed_mul"
    /\ \E a \in FixedOperands, b \in FixedOperands : args = [ a |-> a, b |-> b ]
    /\ ret = NoValue
    /\ local = NoValue
    /\ proc = DefaultProcessor
    /\ engine = NoEngine

FixedMul ==
    /\ pc = "call"
    /\ op = "fixed_mul"
    /\ pc' = "return"
    /\ ret' = fixed_mul(args.a, args.b)
    /\ local' = [ ub |-> "none" ]
    /\ UNCHANGED <<op, args, proc, engine>>

NextFixedMul == FixedMul

SpecFixedMul == InitFixedMul /\ [][NextFixedMul]_vars

-----------------------------------------------------------------------------
(* A window analysed by process and its result decided by evaluate_structure *)

\* processors whose spectrum fits the magnitude buffer
CycleBinCounts == { b \in {1, 64, MAX_BINS} : b \in BinCounts }

\* the first sample of a window: silence, a quiet and the loudest impulse
ImpulseValues == {0, 4000, INT16_MAX}

\* windows of silence, and windows of one impulse followed by silence
CycleWindows ==
    { [ i \in 0..(n - 1) |-> IF i = 0 THEN v ELSE 0 ] :
      n \in 0..MaxSamples, v \in ImpulseValues }

InitCycle ==
    /\ pc = "call"
    /\ op = "process_evaluate_structure"
    /\ \E b \in CycleBinCounts : proc = [num_bins_ |-> b, sample_rate_ |-> 1000]
    /\ \E samples \in CycleWindows, samples_null \in BOOLEAN :
         args = [ samples      |-> samples,
                  samples_null |-> samples_null,
                  num_samples  |-> Count(samples) ]
    /\ ret = NoValue
    /\ local = NoValue
    /\ engine = NoEngine

\* process on the window; 1 <= num_bins_ <= MAX_BINS
CycleProcess ==
    /\ pc = "call"
    /\ op = "process_evaluate_structure"
    /\ local' =
         [ spectral |->
             IF empty_input(args.samples_null, args.num_samples)
             THEN ZeroSpectralResult
             ELSE analyse_spectrum(
                    compute_magnitude_spectrum(args.samples, args.num_samples,
                                               proc.num_bins_),
                    proc.num_bins_, proc.sample_rate_) ]
    /\ pc' = "processed"
    /\ UNCHANGED <<op, args, ret, proc, engine>>

\* evaluate_structure on the result of process, with any inference, battery
\* voltage and configuration
CycleEvaluateStructure ==
    /\ pc = "processed"
    /\ op = "process_evaluate_structure"
    /\ \E battery_mv \in BatteryValues, config \in ThresholdConfigs,
          predicted_class \in PredictedClasses :
         \E confidence \in ConfidenceValues(battery_mv, config) :
            LET inference == [confidence |-> confidence,
                              predicted_class |-> predicted_class]
            IN  /\ ret' = evaluate_structure(local.spectral, inference,
                                             battery_mv, config)
                /\ local' = [ spectral   |-> local.spectral,
                              inference  |-> inference,
                              battery_mv |-> battery_mv,
                              config     |-> config ]
    /\ pc' = "return"
    /\ UNCHANGED <<op, args, proc, engine>>

NextCycle == CycleProcess \/ CycleEvaluateStructure

SpecCycle == InitCycle /\ [][NextCycle]_vars

-----------------------------------------------------------------------------
(* Every call of the core *)

Init ==
    \/ InitDecision
    \/ InitSpectral
    \/ InitInference
    \/ InitFindPeaks
    \/ InitFixedMul
    \/ InitCycle

Next ==
    \/ EvaluateStructure
    \/ Process
    \/ ExtractFeatures
    \/ Run
    \/ FindPeaks
    \/ FixedMul
    \/ CycleProcess
    \/ CycleEvaluateStructure

Spec == Init /\ [][Next]_vars

-----------------------------------------------------------------------------
(* Claims about evaluate_structure *)

Decided == pc = "return" /\ op = "evaluate_structure"

\* the activity check of the specification, on the arguments of the call
ActivityPasses ==
    /\ args.spectral.num_peaks >= args.config.min_peaks_for_detection
    /\ args.spectral.peak_magnitude > float_to_fixed(13421773, 27)

\* C1: activity veto.  Whatever the inference, the battery and the configuration,
\* a call with num_peaks < min_peaks_for_detection or peak_magnitude <= 0.1
\* returns SLEEP.
C1_ActivityVeto ==
    ( /\ Decided
      /\ \/ args.spectral.num_peaks < args.config.min_peaks_for_detection
         \/ args.spectral.peak_magnitude <= float_to_fixed(13421773, 27) )
    => ret = SLEEP

\* a full-confidence anomaly with enough peaks, vetoed by a magnitude of exactly 0.1
C1_Witness ==
    /\ Decided
    /\ args.spectral.num_peaks >= args.config.min_peaks_for_detection
    /\ args.spectral.peak_magnitude = float_to_fixed(13421773, 27)
    /\ args.inference.predicted_class = 1
    /\ args.inference.confidence = FIXED_ONE
    /\ args.config = get_default_config
    /\ args.battery_mv = BATTERY_NOMINAL_MV
    /\ ret = SLEEP

\* C2: with the default configuration, a class-1 inference of confidence at
\* least fixed_mul(0.65, 1.5) on an active spectrum is a TX_ALERT at every
\* battery voltage 0..65535.
C2_AlertAtEveryBattery ==
    ( /\ Decided
      /\ args.config = get_default_config
      /\ ActivityPasses
      /\ args.inference.predicted_class = 1
      /\ args.inference.confidence >=
           fixed_mul(float_to_fixed(5452595, 23), float_to_fixed(3, 1)) )
    => ret = TX_ALERT

\* the alert at an empty battery, with the confidence exactly at 0.975
C2_Witness ==
    /\ Decided
    /\ args.config = get_default_config
    /\ args.battery_mv = 0
    /\ args.inference.predicted_class = 1
    /\ args.inference.confidence =
         fixed_mul(float_to_fixed(5452595, 23), float_to_fixed(3, 1))
    /\ ret = TX_ALERT

\* C3: for an active spectrum and class 1 the decision is TX_ALERT iff
\* confidence >= effective_threshold, TX_UNCERTAIN iff
\* fixed_mul(effective_threshold, 0.7) <= confidence < effective_threshold,
\* and SLEEP otherwise.
C3_Class1Bands ==
    ( Decided /\ ActivityPasses /\ args.inference.predicted_class = 1 )
    => LET c == args.inference.confidence
           t == local.effective_threshold
           u == fixed_mul(t, float_to_fixed(11744051, 24))
       IN  /\ (ret = TX_ALERT) <=> (c >= t)
           /\ (ret = TX_UNCERTAIN) <=> (u <= c /\ c < t)
           /\ (ret = SLEEP) <=> ~(c >= t) /\ ~(u <= c /\ c < t)

\* a confidence exactly at the threshold alerts, at a scaled threshold
C3_Witness ==
    /\ Decided
    /\ ActivityPasses
    /\ args.inference.predicted_class = 1
    /\ args.battery_mv < BATTERY_CRITICAL_MV
    /\ args.config = get_default_config
    /\ args.inference.confidence = local.effective_threshold
    /\ ret = TX_ALERT

\* C4: the effective threshold is base x critical multiplier below 3000 mV,
\* base x low multiplier from 3000 mV and below 3300 mV, and the unscaled base
\* from 3300 mV on (3300..3699 mV as 3700 mV and above).
C4_ThresholdTiers ==
    Decided =>
      local.effective_threshold =
        CASE args.battery_mv < 3000 ->
               fixed_mul(args.config.base_confidence_threshold,
                         args.config.critical_battery_multiplier)
          [] args.battery_mv >= 3000 /\ args.battery_mv < 3300 ->
               fixed_mul(args.config.base_confidence_threshold,
                         args.config.low_battery_multiplier)
          [] args.battery_mv >= 3300 ->
               args.config.base_confidence_threshold

\* 3699 mV, below the nominal voltage, with the unscaled default threshold
C4_Witness ==
    /\ Decided
    /\ args.battery_mv = BATTERY_NOMINAL_MV - 1
    /\ args.config = get_default_config
    /\ local.effective_threshold = float_to_fixed(5452595, 23)

\* C5: default configuration, 3 peaks of magnitude 0.5, class 1: every
\* confidence from 0.70 to 0.85 is a TX_ALERT at 3300 mV and above and a
\* TX_UNCERTAIN below 3000 mV.
C5_BatteryScaling ==
    ( /\ Decided
      /\ args.config = get_default_config
      /\ args.spectral = ActiveSpectral
      /\ args.inference.predicted_class = 1
      /\ args.inference.confidence >= float_to_fixed(11744051, 24)
      /\ args.inference.confidence <= float_to_fixed(7130317, 23) )
    => /\ args.battery_mv >= 3300 => ret = TX_ALERT
       /\ args.battery_mv < 3000 => ret = TX_UNCERTAIN

\* scenario B: confidence 0.85 at 2900 mV, threshold 0.975
C5_Witness ==
    /\ Decided
    /\ args.config = get_default_config
    /\ args.spectral = ActiveSpectral
    /\ args.inference.predicted_class = 1
    /\ args.inference.confidence = float_to_fixed(7130317, 23)
    /\ args.battery_mv = 2900
    /\ local.effective_threshold = 63897
    /\ ret = TX_UNCERTAIN

C7_OtherClassesSleep ==
    Decided =>
      /\ args.inference.predicted_class \notin {1, 2} => ret = SLEEP
      /\ ret # SLEEP => args.inference.predicted_class \in {1, 2}

\* class 255 at full confidence and full battery on an active spectrum
C7_Witness ==
    /\ Decided
    /\ ActivityPasses
    /\ args.inference.predicted_class = UINT8_MAX
    /\ args.inference.confidence = FIXED_ONE
    /\ args.battery_mv = UINT16_MAX
    /\ ret = SLEEP

-----------------------------------------------------------------------------
(* Claims about SpectralProcessor and InferenceEngine *)

\* C8: process neither reads nor writes its magnitude buffer at an index of
\* 128 or more, whatever num_bins the processor was constructed with.
C8_MagnitudeBufferBounded ==
    ( op = "process" /\ pc # "call" )
    => \A i \in local.written \cup local.read : i < 128

\* C9: run returns a defined InferenceResult for every feature vector of length
\* input_size and every model with output_size >= 1: no step of the
\* normalization divides by zero, whatever the spread of the raw outputs.
C9_RunNeverDividesByZero ==
    ( /\ op = "run"
      /\ pc # "call"
      /\ args.num_features = engine.input_size_
      /\ engine.output_size_ >= 1 )
    => pc = "return" /\ local.ub = "none"

\* C10: extract_features on an empty sample window (num_samples = 0) with a
\* destination of at least num_bins elements completes without a division by
\* zero and returns a defined count and feature vector.
C10_EmptyWindowDefined ==
    ( /\ op = "extract_features"
      /\ pc # "call"
      /\ args.num_samples = 0
      /\ args.max_features >= proc.num_bins_ )
    => pc = "return" /\ local.ub = "none"

\* C11: process called with num_samples = 0 or with a null sample pointer
\* returns the all-zero SpectralResult without reading a sample, whatever the
\* number of bins and the sample rate of the processor.
C11_EmptyInputZero ==
    ( /\ op = "process"
      /\ pc # "call"
      /\ (args.num_samples = 0 \/ args.samples_null) )
    => /\ pc = "return"
       /\ ret = ZeroSpectralResult
       /\ local.samples_read = {}
       /\ local.written = {}

\* a null pointer with a positive count, on a processor of more bins than the
\* magnitude buffer holds
C11_Witness ==
    /\ op = "process"
    /\ pc = "return"
    /\ args.samples_null
    /\ args.num_samples = MaxSamples
    /\ \E n \in DOMAIN args.samples : args.samples[n] # 0
    /\ proc.num_bins_ > MAX_BINS
    /\ ret = ZeroSpectralResult

\* C12: run with num_features different from input_size returns exactly
\* {predicted_class = 0, confidence = 0} and reads no feature, no weight and
\* no bias.
C12_LengthMismatchZero ==
    ( /\ op = "run"
      /\ pc # "call"
      /\ args.num_features # engine.input_size_ )
    => /\ pc = "return"
       /\ ret = [confidence |-> 0, predicted_class |-> 0]
       /\ local.reads.features = {}
       /\ local.reads.weights = {}
       /\ local.reads.biases = {}

\* a feature vector longer than input_size whose leading elements would make
\* the first neuron the only active one
C12_Witness ==
    /\ op = "run"
    /\ pc = "return"
    /\ args.num_features > engine.input_size_
    /\ engine.output_size_ = 3
    /\ args.features[0] = FIXED_ONE
    /\ engine.weights_[0] = 127
    /\ engine.weights_[1] = 0 - 128
    /\ ret = ZeroInferenceResult

\* C13: every InferenceResult run returns, for every engine (output_size above
\* the cap of 8 included) and every feature vector, has
\* 0 <= confidence <= FIXED_ONE and predicted_class in {0, 1, 2}.  Stated on
\* the runs that complete without undefined behaviour.
C13_ResultInRange ==
    ( op = "run" /\ pc = "return" /\ local.ub = "none" )
    => /\ 0 <= ret.confidence
       /\ ret.confidence <= FIXED_ONE
       /\ ret.predicted_class \in {0, 1, 2}

\* the raw outputs of a completed run differ by less than 0.001
NearEqualRun ==
    /\ op = "run"
    /\ pc = "return"
    /\ args.num_features = engine.input_size_
    /\ engine.output_size_ >= 1
    /\ \A i, j \in DOMAIN local.raw :
         local.raw[i] - local.raw[j] < float_to_fixed(8589935, 33)

\* C14 as stated: when the post-ReLU raw outputs are near-equal, every
\* normalized output is FIXED_ONE / output_size and the result is class 0 with
\* confidence FIXED_ONE / output_size, for every configured output_size >= 1.
C14_UniformOverOutputSize ==
    NearEqualRun =>
      /\ \A i \in DOMAIN local.outputs :
           local.outputs[i] = FIXED_ONE \div engine.output_size_
      /\ ret = [ confidence |-> FIXED_ONE \div engine.output_size_,
                 predicted_class |-> 0 ]

\* C14 amended: when the post-ReLU raw outputs are near-equal, each of the
\* min(output_size, 8) normalized outputs is FIXED_ONE / min(output_size, 8)
\* and the result is class 0 with that confidence.
C14_UniformOverActualOutputs ==
    NearEqualRun =>
      LET n == IF engine.output_size_ < 8 THEN engine.output_size_ ELSE 8
      IN  /\ DOMAIN local.outputs = 0..(n - 1)
          /\ \A i \in DOMAIN local.outputs : local.outputs[i] = FIXED_ONE \div n
          /\ ret = [ confidence |-> FIXED_ONE \div n, predicted_class |-> 0 ]

\* three outputs that differ, by less than 0.001
C14_Witness ==
    /\ NearEqualRun
    /\ engine.output_size_ = 3
    /\ \E i, j \in DOMAIN local.raw : local.raw[i] > local.raw[j]
    /\ ret = [ confidence |-> 21845, predicted_class |-> 0 ]

\* C15: extract_features with num_samples >= 1 and max_features >= num_bins
\* returns num_bins and leaves in the first num_bins elements of the
\* destination values in [0, FIXED_ONE]; the largest of them is FIXED_ONE
\* exactly when some raw magnitude is nonzero, and when every raw magnitude is
\* zero they are all zero and nothing was divided.
C15_FeaturesNormalized ==
    ( /\ op = "extract_features"
      /\ pc # "call"
      /\ args.num_samples >= 1
      /\ args.max_features >= proc.num_bins_ )
    => LET bins == 0..(proc.num_bins_ - 1)
           some_nonzero == \E k \in DOMAIN local.magnitudes : local.magnitudes[k] # 0
       IN  /\ pc = "return"
           /\ ret = proc.num_bins_
           /\ DOMAIN local.magnitudes = bins
           /\ \A i \in bins : 0 <= local.features[i] /\ local.features[i] <= FIXED_ONE
           /\ some_nonzero <=> (\E i \in bins : local.features[i] = FIXED_ONE)
           /\ ~some_nonzero =>
                /\ \A i \in bins : local.features[i] = 0
                /\ local.divided = {}

\* a spectrum whose largest bin is the DC bin and whose other bins are below it
C15_Witness ==
    /\ op = "extract_features"
    /\ pc = "return"
    /\ args.num_samples >= 2
    /\ proc.num_bins_ = 8
    /\ args.max_features = 8
    /\ ret = 8
    /\ local.features[0] = FIXED_ONE
    /\ \A i \in 1..7 : local.features[i] < FIXED_ONE
    /\ \E i \in 1..7 : local.features[i] > 0

\* C16: extract_features with max_features < num_bins returns 0 and leaves
\* every element of the destination buffer as it was.
C16_SmallDestinationUntouched ==
    ( /\ op = "extract_features"
      /\ pc # "call"
      /\ args.max_features < proc.num_bins_ )
    => /\ pc = "return"
       /\ ret = 0
       /\ local.features = args.features
       /\ local.divided = {}

\* a destination one element short of the default 64 bins, on a window with
\* a signal
C16_Witness ==
    /\ op = "extract_features"
    /\ pc = "return"
    /\ proc.num_bins_ = 64
    /\ args.max_features = 63
    /\ args.num_samples = MaxSamples
    /\ \E n \in DOMAIN args.samples : args.samples[n] # 0
    /\ ret = 0
    /\ local.features = UninitializedBuffer(63)

-----------------------------------------------------------------------------
(* Claims about find_peaks and fixed_mul *)

\* magnitudes[0..count-1] rises strictly up to some bin and is flat from there
IncreasingThenFlat(magnitudes, count) ==
    \E m \in 0..(count - 1) :
      /\ \A i \in 1..m : magnitudes[i - 1] < magnitudes[i]
      /\ \A i \in (m + 1)..(count - 1) : magnitudes[i] = magnitudes[m]

\* C17: find_peaks returns exactly the number of indices i, 1 <= i < count-1,
\* with magnitudes[i] > threshold, magnitudes[i] > magnitudes[i-1] and
\* magnitudes[i] > magnitudes[i+1]; index 0 and index count-1 are never
\* counted, and a strictly increasing then flat sequence has 0 peaks.
C17_InteriorStrictMaxima ==
    ( op = "find_peaks" /\ pc = "return" )
    => LET m == args.magnitudes
           interior == { i \in DOMAIN m : 1 <= i /\ i < args.count - 1 }
           peaks == { i \in interior : /\ m[i] > args.threshold
                                       /\ m[i] > m[i - 1]
                                       /\ m[i] > m[i + 1] }
       IN  /\ ret = Cardinality(peaks)
           /\ ret <= Cardinality(DOMAIN m \ {0, args.count - 1})
           /\ IncreasingThenFlat(m, args.count) => ret = 0

\* a rise to a plateau above the threshold with the largest value at the last
\* index: no peak
C17_Witness ==
    /\ op = "find_peaks"
    /\ pc = "return"
    /\ args.count = MaxPeakBins
    /\ args.threshold = 0
    /\ args.magnitudes[0] < args.magnitudes[1]
    /\ args.magnitudes[1] < args.magnitudes[2]
    /\ \A i \in 3..(MaxPeakBins - 1) : args.magnitudes[i] = args.magnitudes[2]
    /\ ret = 0

\* byte j of the 64-bit two's complement of the 32-bit value x
Byte(x, j) ==
    IF j >= 4 THEN (IF x < 0 THEN UINT8_MAX ELSE 0)
    ELSE (x \div Pow2(8 * j)) % (UINT8_MAX + 1)

RECURSIVE ColumnSum(_, _, _, _)
\* the sum of the byte products of a and b of weight 256^c, over the first n bytes of a
ColumnSum(a, b, c, n) ==
    IF n = 0 THEN 0
    ELSE ColumnSum(a, b, c, n - 1) + Byte(a, n - 1) * Byte(b, c - (n - 1))

RECURSIVE ColumnCarry(_, _, _)
\* the carry into byte c of the product
ColumnCarry(a, b, c) ==
    IF c = 0 THEN 0
    ELSE (ColumnSum(a, b, c - 1, c) + ColumnCarry(a, b, c - 1)) \div (UINT8_MAX + 1)

\* byte c of the 64-bit product a * b, by long multiplication
ProductByte(a, b, c) ==
    (ColumnSum(a, b, c, c + 1) + ColumnCarry(a, b, c)) % (UINT8_MAX + 1)

\* bits 16..47 of the 64-bit product a * b read as a signed 32-bit value: the
\* product shifted right arithmetically by 16 and truncated to 32 bits
ShiftedProduct(a, b) ==
    LET top == ProductByte(a, b, 5)
    IN  (IF top > 127 THEN top - (UINT8_MAX + 1) ELSE top) * Pow2(24)
        + ProductByte(a, b, 4) * Pow2(16)
        + ProductByte(a, b, 3) * Pow2(8)
        + ProductByte(a, b, 2)

\* the product of a and b fits in 31 bits
SmallProduct(a, b) ==
    \/ /\ 0 - 32768 < a /\ a < 32768
       /\ 0 - FIXED_ONE <= b /\ b <= FIXED_ONE
    \/ /\ 0 - 32768 < b /\ b < 32768
       /\ 0 - FIXED_ONE <= a /\ a <= FIXED_ONE

\* C18: fixed_mul(a, b) is the 64-bit product a*b shifted right arithmetically
\* by 16 (the floor of a*b / 65536) and truncated to its low 32 bits read as
\* signed, with no saturation; in range it is exact:
\* fixed_mul(to_fixed(2.0), to_fixed(3.0)) = to_fixed(6.0).
C18_FixedMulTruncates ==
    ( op = "fixed_mul" /\ pc = "return" )
    => /\ ret = ShiftedProduct(args.a, args.b)
       /\ SmallProduct(args.a, args.b) => ret = (args.a * args.b) \div FIXED_ONE
       /\ (args.a = float_to_fixed(2, 0) /\ args.b = float_to_fixed(3, 0))
            => ret = float_to_fixed(6, 0)

\* 3.0 x INT32_MAX: the product wraps to a value of the other magnitude
\* instead of saturating
C18_Witness ==
    /\ op = "fixed_mul"
    /\ pc = "return"
    /\ args.a = float_to_fixed(3, 0)
    /\ args.b = INT32_MAX
    /\ ret = INT32_MAX - 2

-----------------------------------------------------------------------------
(* Claims about the carriers of the spectrum *)

\* C20: in compute_magnitude_spectrum bin k is correlated against the carrier
\* of frequency k * Nyquist / num_bins, whose phase advances by
\* k * 128 / num_bins steps of the 256-step cycle per sample (half a cycle per
\* sample being bin num_bins), as the mapping of process from a bin to
\* bin * sample_rate / (2 * bins) assumes: every magnitude process computes is
\* the magnitude of the correlation with that carrier.
C20_CarrierOfBin ==
    ( op = "process" /\ pc # "call" /\ local.samples_read # {} )
    => \A k \in DOMAIN local.magnitudes :
         local.magnitudes[k] =
           carrier_magnitude(args.samples, args.num_samples,
                             (k * 128) \div proc.num_bins_)

-----------------------------------------------------------------------------
(* Claims about the results of process *)

\* a call of process on a non-empty window that has returned, on a processor
\* of 1 .. 128 bins
Processed ==
    /\ op = "process"
    /\ pc = "return"
    /\ ~args.samples_null
    /\ args.num_samples >= 1
    /\ 1 <= proc.num_bins_
    /\ proc.num_bins_ <= 128

\* the largest magnitude of the bins 1 .. bins - 1, 0 if there is none
NonDcMaximum(magnitudes, bins) ==
    CHOOSE v \in { magnitudes[i] : i \in 1..(bins - 1) } \cup {0} :
      \A i \in 1..(bins - 1) : magnitudes[i] <= v

\* the lowest bin of 1 .. bins - 1 with the magnitude v, 0 for v = 0
LowestBinAt(magnitudes, bins, v) ==
    IF v = 0 THEN 0
    ELSE CHOOSE b \in 1..(bins - 1) :
           /\ magnitudes[b] = v
           /\ \A j \in 1..(b - 1) : magnitudes[j] # v

\* C21: for a non-empty window (on a processor of 1 .. 128 bins) process sets
\* peak_magnitude to the largest magnitude of the bins 1 .. bins-1, never that
\* of bin 0, and dominant_frequency to the fixed-point value of
\* b * sample_rate / (2 * bins), truncated, where b is the lowest bin with
\* that magnitude, and b = 0 when every non-DC magnitude is 0.
C21_PeakAndDominantFrequency ==
    Processed =>
      LET bins == proc.num_bins_
          peak == NonDcMaximum(local.magnitudes, bins)
          b == LowestBinAt(local.magnitudes, bins, peak)
          num == b * proc.sample_rate_
          den == 2 * bins
      IN  /\ ret.peak_magnitude = peak
          /\ ret.dominant_frequency =
               (num \div den) * FIXED_ONE + ((num % den) * FIXED_ONE) \div den

\* the DC bin is the largest, the peak is attained by two of the other bins
\* and the frequency of the lower one is not a whole number
C21_Witness ==
    /\ Processed
    /\ proc.num_bins_ = 3
    /\ local.magnitudes[0] > local.magnitudes[1]
    /\ local.magnitudes[1] = local.magnitudes[2]
    /\ ret.peak_magnitude = local.magnitudes[1]
    /\ ret.peak_magnitude > 0
    /\ ret.dominant_frequency = 10922666

RECURSIVE WeightedTotal(_, _, _)
\* the sum of i * magnitudes[i] over the bins lo .. hi
WeightedTotal(magnitudes, lo, hi) ==
    IF lo > hi THEN 0
    ELSE IF lo = hi THEN lo * magnitudes[lo]
    ELSE WeightedTotal(magnitudes, lo, (lo + hi) \div 2)
         + WeightedTotal(magnitudes, (lo + hi) \div 2 + 1, hi)

RECURSIVE Total(_, _, _)
\* the sum of magnitudes[i] over the bins lo .. hi
Total(magnitudes, lo, hi) ==
    IF lo > hi THEN 0
    ELSE IF lo = hi THEN magnitudes[lo]
    ELSE Total(magnitudes, lo, (lo + hi) \div 2)
         + Total(magnitudes, (lo + hi) \div 2 + 1, hi)

\* the floor of w * 65536 / t for 0 <= w and 0 < t, by two steps of long
\* division in base 256 on the remainder of w / t
FloorRatio(w, t) ==
    LET r0 == w % t
        r1 == (r0 * 256) % t
    IN  (w \div t) * FIXED_ONE + ((r0 * 256) \div t) * 256 + (r1 * 256) \div t

\* C22: compute_centroid returns 0 without dividing when the magnitudes sum
\* to 0, and otherwise the floor of sum(i * mag[i]) * 65536 / sum(mag[i]),
\* which for non-negative magnitudes is a bin index between 0 and
\* (count - 1) * FIXED_ONE.  Checked on the spectra process passes to it.
C22_Centroid ==
    Processed =>
      LET count == proc.num_bins_
          w == WeightedTotal(local.magnitudes, 0, count - 1)
          t == Total(local.magnitudes, 0, count - 1)
      IN  /\ \A i \in 0..(count - 1) : local.magnitudes[i] >= 0
          /\ t = 0 => ret.spectral_centroid = 0 /\ ~local.centroid_divided
          /\ t # 0 => /\ local.centroid_divided
                      /\ ret.spectral_centroid = FloorRatio(w, t)
          /\ 0 <= ret.spectral_centroid
          /\ ret.spectral_centroid <= (count - 1) * FIXED_ONE

\* a centroid between two bins of the default 64, with a fraction
C22_Witness ==
    /\ Processed
    /\ proc.num_bins_ = 64
    /\ local.centroid_divided
    /\ ret.spectral_centroid > 0
    /\ ret.spectral_centroid < 63 * FIXED_ONE
    /\ ret.spectral_centroid % FIXED_ONE # 0

-----------------------------------------------------------------------------
(* Claims about the battery tiers of evaluate_structure *)

\* C23: battery-tier scaling never removes the confirmed-alert path: for every
\* ThresholdConfig and every battery_mv, a class-1 inference of confidence
\* FIXED_ONE on a spectrum that passes the activity check is a TX_ALERT (the
\* scaled threshold never exceeds FIXED_ONE).  Stated for the configurations
\* whose unscaled threshold is at most FIXED_ONE, where the path exists at a
\* full battery.
C23_AlertPathKept ==
    ( /\ Decided
      /\ ActivityPasses
      /\ args.config.base_confidence_threshold <= FIXED_ONE
      /\ args.inference.predicted_class = 1
      /\ args.inference.confidence = FIXED_ONE )
    => /\ ret = TX_ALERT
       /\ local.effective_threshold <= FIXED_ONE

\* the threshold of the critical tier: base x critical multiplier
CriticalThreshold ==
    fixed_mul(args.config.base_confidence_threshold,
              args.config.critical_battery_multiplier)

-----------------------------------------------------------------------------
(* Claims about the normalization of run *)

\* a run whose raw outputs are spread by 0.001 or more and whose
\* normalization completed
SpreadRun ==
    /\ op = "run"
    /\ pc = "return"
    /\ local.ub = "none"
    /\ args.num_features = engine.input_size_
    /\ engine.output_size_ >= 1
    /\ \E i, j \in DOMAIN local.raw :
         local.raw[i] - local.raw[j] >= float_to_fixed(8589935, 33)

RECURSIVE OutputTotal(_, _)
\* the sum of the first n outputs
OutputTotal(outputs, n) ==
    IF n = 0 THEN 0 ELSE OutputTotal(outputs, n - 1) + outputs[n - 1]

\* C25: in run, when the raw outputs are spread by the epsilon or more and
\* the normalization completes, every normalized output is in [0, FIXED_ONE],
\* their sum is 1 up to truncation (FIXED_ONE - count < sum <= FIXED_ONE) and
\* the returned confidence is the largest of them.
C25_NormalizedDistribution ==
    SpreadRun =>
      LET count == Cardinality(DOMAIN local.outputs)
          sum == OutputTotal(local.outputs, count)
      IN  /\ \A i \in DOMAIN local.outputs :
               0 <= local.outputs[i] /\ local.outputs[i] <= FIXED_ONE
          /\ FIXED_ONE - count < sum
          /\ sum <= FIXED_ONE
          /\ \E i \in DOMAIN local.outputs : ret.confidence = local.outputs[i]
          /\ \A i \in DOMAIN local.outputs : ret.confidence >= local.outputs[i]

\* eight outputs, three different values among them, a sum that truncation
\* leaves below 1
C25_Witness ==
    /\ SpreadRun
    /\ engine.output_size_ >= MAX_OUTPUTS
    /\ Cardinality({ local.outputs[i] : i \in DOMAIN local.outputs }) >= 3
    /\ OutputTotal(local.outputs, MAX_OUTPUTS) < FIXED_ONE
    /\ ret.confidence < FIXED_ONE
    /\ ret.confidence > 0

-----------------------------------------------------------------------------
(* Claims about the termination of process *)

\* C26: process terminates and returns a defined SpectralResult for every
\* num_bins (0 and 1 included) and every non-empty sample window: no division
\* of it has a zero divisor.
C26_ProcessDefined ==
    ( /\ op = "process"
      /\ pc # "call"
      /\ ~empty_input(args.samples_null, args.num_samples) )
    => ( pc = "return" /\ local.ub = "none" )

-----------------------------------------------------------------------------
(* Claims about the battery voltage and the decision *)

\* the order SLEEP < TX_UNCERTAIN < TX_ALERT
Rank(decision) ==
    IF decision = SLEEP THEN 0 ELSE IF decision = TX_UNCERTAIN THEN 1 ELSE 2

\* the rank of the decision on the inputs of the call at another voltage
RankAt(battery_mv) ==
    Rank(evaluate_structure(args.spectral, args.inference, battery_mv, args.config))

\* a returned call of evaluate_structure with the default configuration
DefaultDecided ==
    /\ op = "evaluate_structure"
    /\ pc = "return"
    /\ args.config = get_default_config

\* C27: with the default config the decision is monotone in the battery
\* voltage under SLEEP < TX_UNCERTAIN < TX_ALERT: on the same spectral and
\* inference inputs, a lower voltage never ranks higher and a higher voltage
\* never ranks lower than the voltage of the call.
C27_MonotoneInBattery ==
    DefaultDecided =>
      \A b \in BatteryValues :
         /\ (b <= args.battery_mv => RankAt(b) <= Rank(ret))
         /\ (b >= args.battery_mv => RankAt(b) >= Rank(ret))

\* an alert at a nominal voltage that is no transmission at a critical one
C27_Witness ==
    /\ DefaultDecided
    /\ ret = TX_ALERT
    /\ args.battery_mv >= BATTERY_LOW_MV
    /\ RankAt(BATTERY_CRITICAL_MV - 1) = 0
    /\ RankAt(BATTERY_LOW_MV - 1) = 1

-----------------------------------------------------------------------------
(* Claims about the symmetry of the magnitude spectrum *)

\* a call that computed the whole spectrum of a processor whose num_bins
\* divides 256
SpectrumComputed ==
    /\ op \in {"process", "extract_features"}
    /\ pc # "call"
    /\ proc.num_bins_ >= 1
    /\ 256 % proc.num_bins_ = 0
    /\ DOMAIN local.magnitudes = 0..(proc.num_bins_ - 1)

\* C28: for a processor whose num_bins divides 256 and any sample window the
\* magnitude spectrum is mirror-symmetric: magnitude[k] = magnitude[num_bins - k]
\* for every 1 <= k < num_bins.
C28_MirrorSymmetric ==
    SpectrumComputed =>
      \A k \in 1..(proc.num_bins_ - 1) :
         local.magnitudes[k] = local.magnitudes[proc.num_bins_ - k]

\* a component away from bin num_bins/2 that appears twice and is counted as
\* two peaks
C28_Witness ==
    /\ SpectrumComputed
    /\ op = "process"
    /\ pc = "return"
    /\ proc.num_bins_ = 8
    /\ ret.num_peaks = 2
    /\ \E k \in 1..3 :
         /\ local.magnitudes[k] > 0
         /\ local.magnitudes[k] > local.magnitudes[k - 1]
         /\ local.magnitudes[k] > local.magnitudes[k + 1]
         /\ local.magnitudes[8 - k] = local.magnitudes[k]

-----------------------------------------------------------------------------
(* Claims about a silent window, end to end *)

\* the window of the call is empty or all zero
SilentWindow ==
    \/ empty_input(args.samples_null, args.num_samples)
    \/ \A i \in DOMAIN args.samples : args.samples[i] = 0

\* C29: end to end a silent window always sleeps: for a processor with
\* 1 <= num_bins <= 128 an all-zero or empty window makes process return
\* peak_magnitude 0 and num_peaks 0, and evaluate_structure on that result
\* returns SLEEP for every inference, battery voltage and configuration,
\* min_peaks_for_detection = 0 included.
C29_SilentWindowSleeps ==
    ( /\ op = "process_evaluate_structure"
      /\ pc # "call"
      /\ SilentWindow )
    => /\ local.spectral.peak_magnitude = 0
       /\ local.spectral.num_peaks = 0
       /\ (pc = "return" => ret = SLEEP)

\* a window of zeros, no peak required, a full-confidence anomaly on a nominal
\* battery: asleep
C29_Witness ==
    /\ op = "process_evaluate_structure"
    /\ pc = "return"
    /\ ~args.samples_null
    /\ args.num_samples >= 2
    /\ \A i \in DOMAIN args.samples : args.samples[i] = 0
    /\ proc.num_bins_ = 64
    /\ local.config.min_peaks_for_detection = 0
    /\ local.inference.predicted_class = 1
    /\ local.inference.confidence = FIXED_ONE
    /\ local.inference.confidence >=
         effective_threshold(local.battery_mv, local.config)
    /\ local.battery_mv >= BATTERY_NOMINAL_MV
    /\ ret = SLEEP

=============================================================================
